---- MODULE Spec2Model ----
(***************************************************************************)
(* A model of audio-js (src/src/index.js): stage trees (Wave, Noise,       *)
(* Sample, Gain, Envelope, Filter), their description format               *)
(* (toJSON / stageFactory), the binding of a frequency to a stage tree     *)
(* (bind) and the play / release / stop protocol of Binding against a Web  *)
(* Audio engine.                                                           *)
(*                                                                         *)
(* JavaScript objects are records; a property that is absent or undefined  *)
(* is a field that is not in the record's domain.  Times are whole ticks   *)
(* of the engine clock and gains are whole multiples of 1/Unity.           *)
(***************************************************************************)
EXTENDS Integers, Sequences, FiniteSets, TLC

VARIABLES
  stage,        \* the stage tree under consideration, or NoStage
  given,        \* the arguments new Gain(..) was called with, or NoArguments
  desc,         \* a stage description (plain record), or NoDesc
  from,         \* where desc came from: "none", "toJSON" or "caller"
  parsed,       \* what stageFactory(desc) gave: a stage, an Error, or NoStage
  binding,      \* what stage.bind(bindArg) gave in the pure part, or NoBinding
  bindArg,      \* the frequency passed to that bind
  voices,       \* how many times the caller binds the stage for playback
  bound,        \* the binding trees bound for playback, in the order bound
  phase,        \* each one's lifecycle: "unplayed", "playing" or "released"
  nodes,        \* the engine's nodes, a node's id being its index
  currentTime,  \* audioContext.currentTime
  log,          \* the calls made during the last play or release
  thrown,       \* the error the last play or release threw, or "none"
  returned,     \* the node the last play returned, or Null
  last          \* the last call on a binding and its arguments

stageVars == <<desc, from, parsed, binding, bindArg>>
playVars == <<voices, bound, phase, nodes, currentTime, log, thrown, returned, last>>
vars == <<stage, given, stageVars, playVars>>

----------------------------------------------------------------------------
(* Bounds *)

MaxStageNodes == 3     \* stages in one stage tree
MaxChannels == 2       \* channels of a sample's data
MaxFrames == 2         \* frames in one channel of a sample's data
MaxTime == 3           \* ticks of the engine clock
MaxPlays == 2          \* play calls in one run

----------------------------------------------------------------------------
(* JavaScript values *)

NoStage == [none |-> "stage"]
NoDesc == [none |-> "desc"]
NoBinding == [none |-> "binding"]
NoArguments == [none |-> "arguments"]
Null == -1

\* a thrown TypeError (property read or call on undefined)
TypeError == [error |-> "TypeError"]
IsError(r) == "error" \in DOMAIN r

Has(o, k) == k \in DOMAIN o

\* the one-property object {k: o[k]}, empty when o[k] is undefined
Prop(o, k) == IF Has(o, k) THEN (k :> o[k]) ELSE <<>>

\* a || b on numbers: a when a is neither undefined nor 0
Truthy(o, k) == Has(o, k) /\ o[k] # 0

\* the properties of o named in ks (those that are not undefined)
Pick(o, ks) == [k \in (DOMAIN o) \cap ks |-> o[k]]

----------------------------------------------------------------------------
(* Stages.  A stage object is a record whose class field names its class; *)
(* a constructor takes its arguments as a record, an argument that is     *)
(* undefined being absent.                                                *)

WaveKind == "wave"
GainKind == "gain"
EnvelopeKind == "envelope"
FilterKind == "filter"
NoiseKind == "noise"
SampleKind == "sample"

NewWave(a) == [class |-> "Wave"] @@ Pick(a, {"type"})
NewNoise == [class |-> "Noise"]
NewSample(a) == [class |-> "Sample"] @@ Pick(a, {"data", "beginAt", "endAt"})
NewGain(a) == [class |-> "Gain"] @@ Pick(a, {"level", "upstreams"})
NewEnvelope(a) ==
  [class |-> "Envelope",
   options |-> Pick(a.options, {"attack", "decay", "sustain", "release"})]
    @@ Pick(a, {"upstreams"})
NewFilter(a) ==
  [class |-> "Filter"] @@ Pick(a, {"type", "frequency", "q", "gain", "upstreams"})

\* the stages a stage feeds from (none for Wave, Noise, Sample)
Upstreams(s) == IF Has(s, "upstreams") THEN s.upstreams ELSE <<>>

RECURSIVE NodeCount(_)
NodeCount(s) ==
  LET RECURSIVE Sum(_, _)
      Sum(us, i) == IF i > Len(us) THEN 0 ELSE NodeCount(us[i]) + Sum(us, i + 1)
  IN 1 + Sum(Upstreams(s), 1)

----------------------------------------------------------------------------
(* toJSON *)

RECURSIVE toJSON(_)

WaveToJSON(s) == [kind |-> WaveKind] @@ Pick(s, {"type"})

NoiseToJSON(s) == [kind |-> NoiseKind]

SampleToJSON(s) == [kind |-> "sample"] @@ Pick(s, {"data", "beginAt", "endAt"})

GainToJSON(s) ==
  [kind |-> GainKind,
   upstreams |-> [i \in DOMAIN s.upstreams |-> toJSON(s.upstreams[i])]]
    @@ Pick(s, {"level"})

EnvelopeToJSON(s) ==
  [kind |-> EnvelopeKind,
   upstreams |-> [i \in DOMAIN s.upstreams |-> toJSON(s.upstreams[i])]]
    @@ Pick(s.options, {"attack", "decay", "sustain", "release"})

FilterToJSON(s) ==
  [kind |-> FilterKind,
   upstreams |-> [i \in DOMAIN s.upstreams |-> toJSON(s.upstreams[i])]]
    @@ Pick(s, {"type", "frequency", "q", "gain"})

toJSON(s) ==
  CASE s.class = "Wave" -> WaveToJSON(s)
    [] s.class = "Noise" -> NoiseToJSON(s)
    [] s.class = "Sample" -> SampleToJSON(s)
    [] s.class = "Gain" -> GainToJSON(s)
    [] s.class = "Envelope" -> EnvelopeToJSON(s)
    [] s.class = "Filter" -> FilterToJSON(s)

----------------------------------------------------------------------------
(* stageFactory and the parsers.  Each gives a stage, or the Error thrown. *)

RECURSIVE stageFactory(_)

\* array.map(stageFactory) from element i on: [stages |-> the stages], or the
\* first Error thrown
RECURSIVE MapStageFactory(_, _, _)
MapStageFactory(array, i, done) ==
  IF i > Len(array) THEN [stages |-> done]
  ELSE LET r == stageFactory(array[i])
       IN IF IsError(r) THEN r ELSE MapStageFactory(array, i + 1, Append(done, r))

WaveParse(object) == NewWave(Pick(object, {"type"}))

NoiseParse(object) == NewNoise

SampleParse(object) ==
  LET beginAt == IF Truthy(object, "beginAt") THEN object.beginAt ELSE 0
  IN IF Truthy(object, "endAt")
     THEN NewSample(Pick(object, {"data"}) @@ [beginAt |-> beginAt, endAt |-> object.endAt])
     ELSE IF ~Has(object, "data") \/ Len(object.data) = 0
          THEN TypeError
          ELSE NewSample([data |-> object.data, beginAt |-> beginAt,
                          endAt |-> Len(object.data[1])])

GainParse(object) ==
  LET ups == MapStageFactory(Upstreams(object), 1, <<>>)
  IN IF IsError(ups) THEN ups
     ELSE NewGain(Pick(object, {"level"}) @@ [upstreams |-> ups.stages])

EnvelopeParse(object) ==
  IF ~Has(object, "upstreams") THEN TypeError
  ELSE LET ups == MapStageFactory(object.upstreams, 1, <<>>)
       IN IF IsError(ups) THEN ups
          ELSE NewEnvelope([options |-> Pick(object, {"attack", "decay", "sustain", "release"}),
                            upstreams |-> ups.stages])

FilterParse(object) ==
  IF ~Has(object, "upstreams") THEN TypeError
  ELSE LET ups == MapStageFactory(object.upstreams, 1, <<>>)
       IN IF IsError(ups) THEN ups
          ELSE NewFilter(Pick(object, {"type", "frequency", "q", "gain"})
                           @@ [upstreams |-> ups.stages])

\* the kinds the registry holds
Registry == {WaveKind, EnvelopeKind, GainKind, FilterKind, NoiseKind, SampleKind}

\* a factory that falls back to Noise for a kind it does not know
stageFactoryWithFallback(stageObject) ==
  IF ~Has(stageObject, "kind") \/ stageObject.kind \notin Registry
  THEN NoiseParse(stageObject)
  ELSE CASE stageObject.kind = WaveKind -> WaveParse(stageObject)
         [] stageObject.kind = EnvelopeKind -> EnvelopeParse(stageObject)
         [] stageObject.kind = GainKind -> GainParse(stageObject)
         [] stageObject.kind = FilterKind -> FilterParse(stageObject)
         [] stageObject.kind = NoiseKind -> NoiseParse(stageObject)
         [] stageObject.kind = SampleKind -> SampleParse(stageObject)

stageFactory(stageObject) ==
  IF ~Has(stageObject, "kind") \/ stageObject.kind \notin Registry
  THEN TypeError
  ELSE CASE stageObject.kind = WaveKind -> WaveParse(stageObject)
         [] stageObject.kind = EnvelopeKind -> EnvelopeParse(stageObject)
         [] stageObject.kind = GainKind -> GainParse(stageObject)
         [] stageObject.kind = FilterKind -> FilterParse(stageObject)
         [] stageObject.kind = NoiseKind -> NoiseParse(stageObject)
         [] stageObject.kind = SampleKind -> SampleParse(stageObject)

\* Sample.dataLengthInFrames: Math.max over the channels' lengths
dataLengthInFrames(s) ==
  LET lengths == {Len(s.data[i]) : i \in DOMAIN s.data}
  IN CHOOSE m \in lengths : \A x \in lengths : m >= x

----------------------------------------------------------------------------
(* bind *)

NewBinding(stg, frequency, bindings) ==
  [stage |-> stg, frequency |-> frequency, bindings |-> bindings]

RECURSIVE bind(_, _)

WaveBind(s, frequency) == NewBinding(s, frequency, <<>>)

NoiseBind(s, frequency) == NewBinding(s, Null, <<>>)

SampleBind(s, frequency) == NewBinding(s, Null, <<>>)

\* a Gain.bind that does not thread the frequency to its upstreams
GainBindWithoutFrequency(s, frequency) ==
  NewBinding(s, frequency, [i \in DOMAIN s.upstreams |-> bind(s.upstreams[i], Null)])

GainBind(s, frequency) ==
  NewBinding(s, frequency, [i \in DOMAIN s.upstreams |-> bind(s.upstreams[i], frequency)])

EnvelopeBind(s, frequency) ==
  NewBinding(s, frequency, [i \in DOMAIN s.upstreams |-> bind(s.upstreams[i], frequency)])

FilterBind(s, frequency) ==
  NewBinding(s, frequency, [i \in DOMAIN s.upstreams |-> bind(s.upstreams[i], frequency)])

bind(s, frequency) ==
  CASE s.class = "Wave" -> WaveBind(s, frequency)
    [] s.class = "Noise" -> NoiseBind(s, frequency)
    [] s.class = "Sample" -> SampleBind(s, frequency)
    [] s.class = "Gain" -> GainBind(s, frequency)
    [] s.class = "Envelope" -> EnvelopeBind(s, frequency)
    [] s.class = "Filter" -> FilterBind(s, frequency)

----------------------------------------------------------------------------
(* The audio engine (the Web Audio AudioContext the code is handed).  An   *)
(* engine is [nodes, log]: the nodes created so far, a node's id being its *)
(* index, and the calls made during the handler that is running.           *)

Unity == 6             \* the gain 1.0, in the model's gain units
Destination == 0       \* audioContext.destination

\* an AudioParam: its intrinsic value and its scheduled events, by time
NewParam(v) == [value |-> v, events |-> <<>>]

\* audioContext.createOscillator / createGain / createBiquadFilter /
\* createBufferSource, with the Web Audio defaults
NewOscillator ==
  [type |-> "oscillator", oscType |-> "sine", frequency |-> NewParam(440),
   started |-> Null, stopped |-> Null, outputs |-> <<>>]
NewGainNode == [type |-> "gain", gain |-> NewParam(Unity), outputs |-> <<>>]
NewBiquadFilter ==
  [type |-> "biquad", filterType |-> "lowpass", frequency |-> NewParam(350),
   Q |-> NewParam(1), gain |-> NewParam(0), outputs |-> <<>>]
NewBufferSource ==
  [type |-> "bufferSource", loop |-> FALSE, started |-> Null, stopped |-> Null,
   outputs |-> <<>>]

\* node.stop exists: only the scheduled sources have a stop operation
HasStop(node) == node.type \in {"oscillator", "bufferSource"}

Create(eng, node) == [eng EXCEPT !.nodes = Append(@, node)]
Newest(eng) == Len(eng.nodes)
Logged(eng, entry) == [eng EXCEPT !.log = Append(@, entry)]

\* node.connect(destination)
Connect(eng, n, destination) ==
  Logged([eng EXCEPT !.nodes[n].outputs = Append(@, destination)],
         [op |-> "connect", node |-> n, to |-> destination])

\* source.start(at)
Start(eng, n, at) == [eng EXCEPT !.nodes[n].started = at]

\* param.setValueAtTime(v, t) and param.linearRampToValueAtTime(v, t): the
\* event goes after the events that are not later than t
InsertEvent(param, e) ==
  LET before == SelectSeq(param.events, LAMBDA x : x.time <= e.time)
      after == SelectSeq(param.events, LAMBDA x : x.time > e.time)
  IN [param EXCEPT !.events = before \o <<e>> \o after]
SetValueAtTime(param, v, t) == InsertEvent(param, [type |-> "set", value |-> v, time |-> t])
LinearRampToValueAtTime(param, v, t) ==
  InsertEvent(param, [type |-> "ramp", value |-> v, time |-> t])

\* param.cancelScheduledValues(t): the events at or after t are removed
CancelScheduledValues(param, t) ==
  [param EXCEPT !.events = SelectSeq(@, LAMBDA x : x.time < t)]

\* param.value read at time t: the intrinsic value before the first event; the
\* value of the last event not later than t; on the way to a ramp that ends
\* after t, the linear interpolation between the two
ValueAt(param, t) ==
  LET past == SelectSeq(param.events, LAMBDA x : x.time <= t)
      future == SelectSeq(param.events, LAMBDA x : x.time > t)
      v0 == IF past = <<>> THEN param.value ELSE past[Len(past)].value
      t0 == IF past = <<>> THEN t ELSE past[Len(past)].time
  IN IF future # <<>> /\ future[1].type = "ramp" /\ past # <<>>
     THEN v0 + ((future[1].value - v0) * (t - t0)) \div (future[1].time - t0)
     ELSE v0

----------------------------------------------------------------------------
(* press and release of each stage.  press gives [eng, node]; release      *)
(* gives [eng, stopsAt].  now is audioContext.currentTime.                 *)

WavePress(s, eng, at, frequency) ==
  LET e1 == Create(eng, NewOscillator)
      n == Newest(e1)
      e2 == [e1 EXCEPT !.nodes[n].oscType = s.type,
                       !.nodes[n].frequency.value = frequency]
  IN [eng |-> Start(e2, n, at), node |-> n]

\* a Wave.release that lets the oscillator run one tick longer
WaveReleaseLate(s, eng, n, now) == [eng |-> eng, stopsAt |-> now + 1]

WaveRelease(s, eng, n, now) == [eng |-> eng, stopsAt |-> now]

GainPress(s, eng, at, frequency) ==
  LET e1 == Create(eng, NewGainNode)
      n == Newest(e1)
  IN [eng |-> [e1 EXCEPT !.nodes[n].gain.value = s.level], node |-> n]

GainRelease(s, eng, n, now) == [eng |-> eng, stopsAt |-> now]

\* an Envelope.press that stays at full gain after the attack
EnvelopePressWithoutDecay(s, eng, at, frequency) ==
  LET e1 == Create(eng, NewGainNode)
      n == Newest(e1)
      p1 == SetValueAtTime(e1.nodes[n].gain, 0, at + 0)
      p2 == LinearRampToValueAtTime(p1, Unity, at + s.options.attack)
  IN [eng |-> [e1 EXCEPT !.nodes[n].gain = p2], node |-> n]

EnvelopePress(s, eng, at, frequency) ==
  LET e1 == Create(eng, NewGainNode)
      n == Newest(e1)
      p1 == SetValueAtTime(e1.nodes[n].gain, 0, at + 0)
      p2 == LinearRampToValueAtTime(p1, Unity, at + s.options.attack)
      p3 == LinearRampToValueAtTime(p2, s.options.sustain,
                                    at + s.options.attack + s.options.decay)
  IN [eng |-> [e1 EXCEPT !.nodes[n].gain = p3], node |-> n]

\* an Envelope.release that restarts the ramp from full gain
EnvelopeReleaseFromUnity(s, eng, n, now) ==
  LET p1 == CancelScheduledValues(eng.nodes[n].gain, now)
      p2 == SetValueAtTime(p1, Unity, now)
      p3 == LinearRampToValueAtTime(p2, 0, now + s.options.release)
  IN [eng |-> [eng EXCEPT !.nodes[n].gain = p3], stopsAt |-> now + s.options.release]

EnvelopeRelease(s, eng, n, now) ==
  LET valueBefore == ValueAt(eng.nodes[n].gain, now)
      p1 == CancelScheduledValues(eng.nodes[n].gain, now)
      p2 == SetValueAtTime(p1, valueBefore, now)
      p3 == LinearRampToValueAtTime(p2, 0, now + s.options.release)
  IN [eng |-> [eng EXCEPT !.nodes[n].gain = p3], stopsAt |-> now + s.options.release]

FilterPress(s, eng, at, frequency) ==
  LET e1 == Create(eng, NewBiquadFilter)
      n == Newest(e1)
  IN [eng |-> [e1 EXCEPT !.nodes[n].filterType = s.type,
                         !.nodes[n].frequency = SetValueAtTime(@, s.frequency, at),
                         !.nodes[n].Q = SetValueAtTime(@, s.q, at),
                         !.nodes[n].gain = SetValueAtTime(@, s.gain, at)],
      node |-> n]

FilterRelease(s, eng, n, now) == [eng |-> eng, stopsAt |-> now]

\* the buffer holds two seconds of random samples; only its shape is kept
NoisePress(s, eng, at, frequency) ==
  LET e1 == Create(eng, NewBufferSource)
      n == Newest(e1)
      e2 == [e1 EXCEPT !.nodes[n] = [buffer |-> [channels |-> 1, noise |-> TRUE]] @@ @,
                       !.nodes[n].loop = TRUE]
  IN [eng |-> Start(e2, n, at), node |-> n]

NoiseRelease(s, eng, n, now) == [eng |-> eng, stopsAt |-> now]

\* Sample.createBufferContainingData: a buffer of data.length channels and
\* dataLengthInFrames frames, the frames beginAt .. endAt - 1 copied from data
createBufferContainingData(s) ==
  [channels |-> Len(s.data), frames |-> dataLengthInFrames(s),
   copied |-> {i \in 0..(dataLengthInFrames(s) - 1) : s.beginAt <= i /\ i < s.endAt}]

SamplePress(s, eng, at, frequency) ==
  LET e1 == Create(eng, NewBufferSource)
      n == Newest(e1)
      e2 == [e1 EXCEPT !.nodes[n] = [buffer |-> createBufferContainingData(s)] @@ @]
  IN [eng |-> Start(e2, n, at), node |-> n]

SampleRelease(s, eng, n, now) == [eng |-> eng, stopsAt |-> now]

\* this.stage.press(audioContext, at, this.frequency)
StagePress(s, eng, at, frequency) ==
  LET r == CASE s.class = "Wave" -> WavePress(s, eng, at, frequency)
             [] s.class = "Noise" -> NoisePress(s, eng, at, frequency)
             [] s.class = "Sample" -> SamplePress(s, eng, at, frequency)
             [] s.class = "Gain" -> GainPress(s, eng, at, frequency)
             [] s.class = "Envelope" -> EnvelopePress(s, eng, at, frequency)
             [] s.class = "Filter" -> FilterPress(s, eng, at, frequency)
  IN [r EXCEPT !.eng = Logged(@, [op |-> "press", stage |-> s, at |-> at,
                                  frequency |-> frequency, node |-> r.node])]

\* this.stage.release(this.node)
StageRelease(s, eng, n, now) ==
  LET r == CASE s.class = "Wave" -> WaveRelease(s, eng, n, now)
             [] s.class = "Noise" -> NoiseRelease(s, eng, n, now)
             [] s.class = "Sample" -> SampleRelease(s, eng, n, now)
             [] s.class = "Gain" -> GainRelease(s, eng, n, now)
             [] s.class = "Envelope" -> EnvelopeRelease(s, eng, n, now)
             [] s.class = "Filter" -> FilterRelease(s, eng, n, now)
  IN [r EXCEPT !.eng = Logged(@, [op |-> "release", node |-> n, stopsAt |-> r.stopsAt])]

----------------------------------------------------------------------------
(* Binding: play, release, stop.  Each walk threads the engine through the *)
(* tree in the order of the code and gives it back; a walk that throws     *)
(* gives the engine as it was at the throw and the error.                  *)

\* a play that also writes the node onto the stage
SetNodeOnStage(b, n) == [[node |-> n] @@ b EXCEPT !.stage = [node |-> n] @@ @]

\* a play that does not record the node on the binding
SetNoNode(b, n) == b

\* this.node = node
SetNode(b, n) == [node |-> n] @@ b

RECURSIVE BindingPlay(_, _, _, _)

\* this.bindings.forEach((binding) => binding.play(.., node, at).connect(node))
\* from child i on; gives [eng, bindings]
RECURSIVE PlayEach(_, _, _, _, _, _)

\* a forEach that plays the children from the last to the first
PlayEachBackwards(bindings, i, node, at, eng, done) ==
  IF i > Len(bindings) THEN [eng |-> eng, bindings |-> done]
  ELSE LET r == BindingPlay(bindings[Len(bindings) - i + 1], node, at, eng)
       IN PlayEach(bindings, i + 1, node, at, Connect(r.eng, r.node, node),
                   <<r.binding>> \o done)

PlayEach(bindings, i, node, at, eng, done) ==
  IF i > Len(bindings) THEN [eng |-> eng, bindings |-> done]
  ELSE LET r == BindingPlay(bindings[i], node, at, eng)
       IN PlayEach(bindings, i + 1, node, at, Connect(r.eng, r.node, node),
                   Append(done, r.binding))

\* Binding.play(audioContext, destination, at): gives [eng, binding, node]
BindingPlay(b, destination, at, eng) ==
  LET pressed == StagePress(b.stage, eng, at, b.frequency)
      connected == Connect(pressed.eng, pressed.node, destination)
      self == SetNode(b, pressed.node)
      rest == PlayEach(self.bindings, 1, pressed.node, at, connected, <<>>)
  IN [eng |-> rest.eng,
      binding |-> [self EXCEPT !.bindings = rest.bindings],
      node |-> pressed.node]

Max(a, b) == IF a >= b THEN a ELSE b

RECURSIVE internalReleaseAndCalculateMaxStopsAt(_, _, _)

\* this.bindings.map(..internalReleaseAndCalculateMaxStopsAt()) folded with
\* Math.max, from child i on; gives [eng, maxStopsAt] or [eng, error]
RECURSIVE ReleaseEach(_, _, _, _, _)
ReleaseEach(bindings, i, eng, now, maxStopsAt) ==
  IF i > Len(bindings) THEN [eng |-> eng, maxStopsAt |-> maxStopsAt]
  ELSE LET r == internalReleaseAndCalculateMaxStopsAt(bindings[i], eng, now)
       IN IF IsError(r) THEN r
          ELSE ReleaseEach(bindings, i + 1, r.eng, now, Max(maxStopsAt, r.maxStopsAt))

\* an internalReleaseAndCalculateMaxStopsAt that forgets its upstreams' stop times
internalReleaseIgnoringUpstreams(b, eng, now) ==
  IF ~Has(b, "node") THEN [eng |-> eng, error |-> "TypeError"]
  ELSE LET own == StageRelease(b.stage, eng, b.node, now)
           rest == ReleaseEach(b.bindings, 1, own.eng, now, own.stopsAt)
       IN IF IsError(rest) THEN rest ELSE [rest EXCEPT !.maxStopsAt = own.stopsAt]

internalReleaseAndCalculateMaxStopsAt(b, eng, now) ==
  IF ~Has(b, "node") THEN [eng |-> eng, error |-> "TypeError"]
  ELSE LET own == StageRelease(b.stage, eng, b.node, now)
       IN ReleaseEach(b.bindings, 1, own.eng, now, own.stopsAt)

\* a stop that halts every source of the engine, not only node n
StopEverySource(eng, n, at, rejects) ==
  [eng |-> Logged([eng EXCEPT !.nodes = [k \in DOMAIN @ |->
                                          IF HasStop(@[k]) THEN [@[k] EXCEPT !.stopped = at]
                                          ELSE @[k]]],
                  [op |-> "stop", node |-> n, at |-> at, threw |-> FALSE])]

\* node.stop(at) on the engine: a node that was already stopped is in a state
\* where stop is invalid, and an engine that rejects it throws
Stop(eng, n, at, rejects) ==
  IF rejects /\ eng.nodes[n].stopped # Null
  THEN [eng |-> Logged(eng, [op |-> "stop", node |-> n, at |-> at, threw |-> TRUE]),
        error |-> "InvalidStateError"]
  ELSE [eng |-> Logged([eng EXCEPT !.nodes[n].stopped = at],
                       [op |-> "stop", node |-> n, at |-> at, threw |-> FALSE])]

RECURSIVE BindingStop(_, _, _, _)

\* this.bindings.forEach((binding) => binding.stop(at)) from child i on
RECURSIVE StopEach(_, _, _, _, _)
StopEach(bindings, i, eng, at, rejects) ==
  IF i > Len(bindings) THEN [eng |-> eng]
  ELSE LET r == BindingStop(bindings[i], eng, at, rejects)
       IN IF IsError(r) THEN r ELSE StopEach(bindings, i + 1, r.eng, at, rejects)

\* Binding.stop(at): gives [eng] or [eng, error]
BindingStop(b, eng, at, rejects) ==
  IF ~Has(b, "node") THEN [eng |-> eng, error |-> "TypeError"]
  ELSE LET entered == Logged(eng, [op |-> "Binding.stop", node |-> b.node, at |-> at])
           own == IF HasStop(eng.nodes[b.node])
                  THEN Stop(entered, b.node, at, rejects)
                  ELSE [eng |-> entered]
       IN IF IsError(own) THEN own
          ELSE StopEach(b.bindings, 1, own.eng, at, rejects)

\* a release that stops the nodes first and asks the stages afterwards
BindingReleaseStopFirst(b, eng, now, rejects) ==
  LET stopped == BindingStop(b, eng, now, rejects)
  IN IF IsError(stopped) THEN stopped
     ELSE LET r == internalReleaseAndCalculateMaxStopsAt(b, stopped.eng, now)
          IN IF IsError(r) THEN r ELSE [eng |-> r.eng]

\* a release that quietly does nothing on a binding without a node
BindingReleaseIfPlayed(b, eng, now, rejects) ==
  IF ~Has(b, "node") THEN [eng |-> eng]
  ELSE LET r == internalReleaseAndCalculateMaxStopsAt(b, eng, now)
       IN IF IsError(r) THEN r ELSE BindingStop(b, r.eng, r.maxStopsAt, rejects)

\* Binding.release(): gives [eng] or [eng, error]
BindingRelease(b, eng, now, rejects) ==
  LET r == internalReleaseAndCalculateMaxStopsAt(b, eng, now)
  IN IF IsError(r) THEN r ELSE BindingStop(b, r.eng, r.maxStopsAt, rejects)

----------------------------------------------------------------------------
(* The stages and descriptions the model draws its inputs from *)

WaveTypes == {"triangle", "sine"}
Levels == {0, 5}
EnvelopeOptions ==
  {[attack |-> 2, decay |-> 2, sustain |-> 2, release |-> 1],
   [attack |-> 1, decay |-> 1, sustain |-> 3, release |-> 3]}
FilterOptions == {[type |-> "lowpass", frequency |-> 300, q |-> 1, gain |-> 0]}
ConcertPitch == 440
Frequencies == {ConcertPitch, 220}

\* a channel of n frames, frame i holding amplitude i
Channel(n) == [i \in 1..n |-> i]
Datas ==
  UNION {[1..c -> {Channel(n) : n \in 1..MaxFrames}] : c \in 1..MaxChannels}

\* every Sample over Datas whose offsets are frame offsets of its data
Samples ==
  {NewSample([data |-> d, beginAt |-> b, endAt |-> e]) :
     d \in Datas, b \in 0..MaxFrames, e \in 0..MaxFrames}
\* (offsets past the data, or beginAt after endAt, are filtered below)
ValidSamples ==
  {s \in Samples : s.beginAt <= s.endAt /\ s.endAt <= dataLengthInFrames(s)}

\* the Sample that stage trees use as a leaf
LeafSample ==
  NewSample([data |-> <<Channel(MaxFrames)>>, beginAt |-> 0, endAt |-> MaxFrames])

LeafStages ==
  {NewWave([type |-> t]) : t \in WaveTypes} \cup {NewNoise, LeafSample}
InnerStages ==
  {[class |-> "Gain", level |-> l] : l \in Levels}
    \cup {[class |-> "Envelope", options |-> o] : o \in EnvelopeOptions}
    \cup {[class |-> "Filter"] @@ o : o \in FilterOptions}

\* the trees of exactly n nodes: a leaf, or an inner node over a forest of
\* n - 1 nodes
RECURSIVE TreesOfSize(_, _, _)
RECURSIVE ForestsOfSize(_, _, _)
TreesOfSize(leaves, inner, n) ==
  (IF n = 1 THEN leaves ELSE {})
    \cup {l @@ [upstreams |-> f] : l \in inner, f \in ForestsOfSize(leaves, inner, n - 1)}
ForestsOfSize(leaves, inner, n) ==
  IF n = 0 THEN {<<>>}
  ELSE UNION {{<<t>> \o f : t \in TreesOfSize(leaves, inner, k),
                            f \in ForestsOfSize(leaves, inner, n - k)} : k \in 1..n}

\* (the sets of trees take the size bound as a parameter, so that they are
\* built where a tree is drawn and not where none is)
StageTrees(max) == UNION {TreesOfSize(LeafStages, InnerStages, n) : n \in 1..max}
Stages(max) == StageTrees(max) \cup ValidSamples

\* descriptions a caller may hand to stageFactory: well-formed ones, ones that
\* leave optional properties out, and ones with a kind the registry lacks
SampleDescriptions ==
  {Pick(SampleToJSON(s), ks) :
     s \in ValidSamples,
     ks \in {{"kind", "data"} \cup o : o \in SUBSET {"beginAt", "endAt"}}}
LeafDescriptions ==
  {WaveToJSON(NewWave([type |-> t])) : t \in WaveTypes}
    \cup {NoiseToJSON(NewNoise)}
    \cup {Pick(SampleToJSON(LeafSample), {"kind", "data"})}
    \cup {[kind |-> GainKind, level |-> l] : l \in Levels}
    \cup {[kind |-> "unknown"], [type |-> "sine"]}
InnerDescriptions ==
  {[kind |-> GainKind, level |-> l] : l \in Levels}
    \cup {[kind |-> EnvelopeKind] @@ o : o \in EnvelopeOptions}
    \cup {[kind |-> FilterKind] @@ o : o \in FilterOptions}

\* Envelope and Filter descriptions with any of the declared properties left
\* out, alone and as the upstream of a Gain
EnvelopeProperties == {"attack", "decay", "sustain", "release"}
FilterProperties == {"type", "frequency", "q", "gain"}
PartialDescriptions ==
  {[kind |-> EnvelopeKind] @@ Pick(o @@ [upstreams |-> u], ks) :
     o \in EnvelopeOptions, u \in {<<>>, <<WaveToJSON(NewWave([type |-> "sine"]))>>},
     ks \in SUBSET (EnvelopeProperties \cup {"upstreams"})}
    \cup {[kind |-> FilterKind] @@ Pick(o @@ [upstreams |-> u], ks) :
            o \in FilterOptions, u \in {<<>>, <<NoiseToJSON(NewNoise)>>},
            ks \in SUBSET (FilterProperties \cup {"upstreams"})}
IncompleteDescriptions ==
  PartialDescriptions
    \cup {[kind |-> GainKind, level |-> 5, upstreams |-> <<d>>] : d \in PartialDescriptions}

Descriptions(max) ==
  UNION {TreesOfSize(LeafDescriptions, InnerDescriptions, n) : n \in 1..max}
    \cup SampleDescriptions \cup IncompleteDescriptions

\* what a caller may pass to new Envelope(options, upstreams) and to
\* new Filter(type, frequency, q, gain, upstreams): kind names the class, an
\* argument that is left out or undefined is absent
ConstructorArguments ==
  {[kind |-> EnvelopeKind] @@ Pick([options |-> Pick(o, ks), upstreams |-> u], as) :
     o \in EnvelopeOptions, u \in {<<>>, <<NewWave([type |-> "sine"])>>},
     ks \in SUBSET EnvelopeProperties, as \in SUBSET {"options", "upstreams"}}
    \cup {[kind |-> FilterKind] @@ Pick(o @@ [upstreams |-> u], ks) :
            o \in FilterOptions, u \in {<<>>, <<NewNoise>>},
            ks \in SUBSET (FilterProperties \cup {"upstreams"})}

\* new Envelope(..) / new Filter(..) on such arguments: the Envelope
\* constructor reads options.attack, which throws when options is undefined
NewStage(a) ==
  CASE a.kind = EnvelopeKind -> IF Has(a, "options") THEN NewEnvelope(a) ELSE TypeError
    [] a.kind = FilterKind -> NewFilter(a)

----------------------------------------------------------------------------
(* The stage model: construction, toJSON, stageFactory and bind *)

InitStage ==
  /\ stage = NoStage
  /\ given = NoArguments
  /\ desc = NoDesc
  /\ from = "none"
  /\ parsed = NoStage
  /\ binding = NoBinding
  /\ bindArg = Null
  /\ voices = 0
  /\ bound = <<>>
  /\ phase = <<>>
  /\ nodes = <<>>
  /\ currentTime = 0
  /\ log = <<>>
  /\ thrown = "none"
  /\ returned = Null
  /\ last = [op |-> "none"]

\* new Wave(..), new Gain(..), ...: a stage tree is built by hand
Construct ==
  /\ stage = NoStage /\ desc = NoDesc
  /\ stage' \in Stages(MaxStageNodes)
  /\ UNCHANGED <<given, desc, from, parsed, binding, bindArg, playVars>>

\* stage.toJSON()
Serialize ==
  /\ stage # NoStage /\ desc = NoDesc
  /\ desc' = toJSON(stage)
  /\ from' = "toJSON"
  /\ UNCHANGED <<stage, given, parsed, binding, bindArg, playVars>>

\* a description arrives from a caller
Receive ==
  /\ stage = NoStage /\ desc = NoDesc
  /\ desc' \in Descriptions(MaxStageNodes)
  /\ from' = "caller"
  /\ UNCHANGED <<stage, given, parsed, binding, bindArg, playVars>>

\* stageFactory(desc)
Deserialize ==
  /\ desc # NoDesc /\ parsed = NoStage
  /\ parsed' = stageFactory(desc)
  /\ UNCHANGED <<stage, given, desc, from, binding, bindArg, playVars>>

\* stage.bind(frequency)
BindStage ==
  /\ stage # NoStage /\ binding = NoBinding
  /\ \E frequency \in Frequencies :
       /\ binding' = bind(stage, frequency)
       /\ bindArg' = frequency
  /\ UNCHANGED <<stage, given, desc, from, parsed, playVars>>

\* new Envelope(..) or new Filter(..) with the arguments a caller passes
Instantiate ==
  /\ stage = NoStage /\ desc = NoDesc
  /\ \E a \in ConstructorArguments :
       /\ desc' = a
       /\ parsed' = NewStage(a)
  /\ from' = "new"
  /\ UNCHANGED <<stage, given, binding, bindArg, playVars>>

NextStage == Construct \/ Serialize \/ Receive \/ Deserialize \/ BindStage \/ Instantiate

SpecStage == InitStage /\ [][NextStage]_vars

----------------------------------------------------------------------------
(* Playback: a patch is bound, played and released against the engine      *)
(* while the engine's clock runs.                                          *)

Envelope1 == [attack |-> 2, decay |-> 2, sustain |-> 2, release |-> 1]
Envelope2 == [attack |-> 1, decay |-> 1, sustain |-> 3, release |-> 3]

\* the patches played: every stage kind, sources under gains, envelopes and
\* filters, envelopes of different release times below and beside each other
Patches ==
  {NewWave([type |-> "triangle"]),
   NewGain([level |-> 0, upstreams |-> <<NewWave([type |-> "triangle"])>>]),
   NewEnvelope([options |-> Envelope1, upstreams |-> <<NewWave([type |-> "sine"])>>]),
   NewGain([level |-> 5, upstreams |->
     <<NewEnvelope([options |-> Envelope1,
                    upstreams |-> <<NewWave([type |-> "triangle"])>>])>>]),
   NewEnvelope([options |-> Envelope1, upstreams |->
     <<NewEnvelope([options |-> Envelope2, upstreams |-> <<NewNoise>>])>>]),
   NewFilter([type |-> "lowpass", frequency |-> 300, q |-> 1, gain |-> 0,
              upstreams |-> <<NewNoise, LeafSample>>]),
   NewGain([level |-> 5, upstreams |->
     <<NewWave([type |-> "triangle"]), NewWave([type |-> "triangle"])>>]),
   NewGain([level |-> 0, upstreams |->
     <<NewEnvelope([options |-> Envelope1, upstreams |-> <<NewWave([type |-> "sine"])>>]),
       NewEnvelope([options |-> Envelope2, upstreams |-> <<LeafSample>>])>>])}

Init ==
  /\ stage \in Patches
  /\ given = NoArguments
  /\ desc = NoDesc
  /\ from = "none"
  /\ parsed = NoStage
  /\ binding = NoBinding
  /\ bindArg = Null
  /\ voices = 1
  /\ bound = <<>>
  /\ phase = <<>>
  /\ nodes = <<>>
  /\ currentTime = 0
  /\ log = <<>>
  /\ thrown = "none"
  /\ returned = Null
  /\ last = [op |-> "none"]

\* play calls made so far: every play of a patch creates one node per stage
PlaysSoFar == Len(nodes) \div NodeCount(stage)

\* stage.bind(frequency), kept for playback
Bind ==
  /\ Len(bound) < voices
  /\ \E frequency \in {ConcertPitch} :
       /\ bound' = Append(bound, bind(stage, frequency))
       /\ last' = [op |-> "bind", i |-> Len(bound) + 1, frequency |-> frequency]
  /\ phase' = Append(phase, "unplayed")
  /\ log' = <<>>
  /\ thrown' = "none"
  /\ returned' = Null
  /\ UNCHANGED <<stage, given, stageVars, voices, nodes, currentTime>>

\* bound[i].play(audioContext, audioContext.destination, at), at being the
\* engine's current time as in silentPingToWakeAutoPlayGates
Play(i) ==
  /\ PlaysSoFar < MaxPlays
  /\ \E at \in {currentTime} :
       LET r == BindingPlay(bound[i], Destination, at, [nodes |-> nodes, log |-> <<>>])
       IN /\ bound' = [bound EXCEPT ![i] = r.binding]
          /\ nodes' = r.eng.nodes
          /\ log' = r.eng.log
          /\ returned' = r.node
          /\ last' = [op |-> "play", i |-> i, at |-> at, before |-> phase[i]]
  /\ phase' = [phase EXCEPT ![i] = "playing"]
  /\ thrown' = "none"
  /\ UNCHANGED <<stage, given, stageVars, voices, currentTime>>

\* bound[i].release(); the engine may or may not reject a stop on a node
\* that was stopped before
ReleaseBinding(i) ==
  /\ \E rejects \in BOOLEAN :
       LET r == BindingRelease(bound[i], [nodes |-> nodes, log |-> <<>>],
                               currentTime, rejects)
       IN /\ nodes' = r.eng.nodes
          /\ log' = r.eng.log
          /\ thrown' = IF IsError(r) THEN r.error ELSE "none"
          /\ phase' = IF IsError(r) THEN phase ELSE [phase EXCEPT ![i] = "released"]
  /\ last' = [op |-> "release", i |-> i, now |-> currentTime, before |-> phase[i]]
  /\ returned' = Null
  /\ UNCHANGED <<stage, given, stageVars, voices, bound, currentTime>>

\* the engine renders: its clock advances
Tick ==
  /\ currentTime < MaxTime
  /\ currentTime' = currentTime + 1
  /\ UNCHANGED <<stage, given, stageVars, voices, bound, phase, nodes, log, thrown, returned, last>>

Next ==
  \/ Bind
  \/ \E i \in DOMAIN bound : Play(i)
  \/ \E i \in DOMAIN bound : ReleaseBinding(i)
  \/ Tick

Spec == Init /\ [][Next]_vars

----------------------------------------------------------------------------
(* Two voices: one patch is bound twice and the two binding trees are      *)
(* played and released in any interleaving.                                *)

VoicePatches ==
  {NewEnvelope([options |-> Envelope2, upstreams |-> <<NewWave([type |-> "sine"])>>]),
   NewFilter([type |-> "lowpass", frequency |-> 300, q |-> 1, gain |-> 0,
              upstreams |-> <<NewNoise, LeafSample>>]),
   NewGain([level |-> 5, upstreams |->
     <<NewEnvelope([options |-> Envelope1,
                    upstreams |-> <<NewWave([type |-> "triangle"])>>])>>])}

InitVoices ==
  /\ stage \in VoicePatches
  /\ given = NoArguments
  /\ desc = NoDesc
  /\ from = "none"
  /\ parsed = NoStage
  /\ binding = NoBinding
  /\ bindArg = Null
  /\ voices = 2
  /\ bound = <<>>
  /\ phase = <<>>
  /\ nodes = <<>>
  /\ currentTime = 0
  /\ log = <<>>
  /\ thrown = "none"
  /\ returned = Null
  /\ last = [op |-> "none"]

\* each voice is played once, when unplayed, and released (too early, or
\* when playing) until a release has gone through
PlayVoice(i) == phase[i] = "unplayed" /\ Play(i)
ReleaseVoice(i) == phase[i] # "released" /\ ReleaseBinding(i)

NextVoices ==
  \/ Bind
  \/ \E i \in DOMAIN bound : PlayVoice(i)
  \/ \E i \in DOMAIN bound : ReleaseVoice(i)
  \/ Tick

SpecVoices == InitVoices /\ [][NextVoices]_vars

----------------------------------------------------------------------------
(* A Gain from its construction on: new Gain(level, upstreams), then bind, *)
(* play, release and toJSON in any order.  The Gain object is held by the  *)
(* caller (stage) and by every binding made from it (binding.stage); a     *)
(* write to the object through either would show in that holder's copy.    *)

GainUpstreams ==
  {<<>>,
   <<NewWave([type |-> "triangle"])>>,
   <<NewWave([type |-> "sine"]), NewNoise>>,
   <<NewGain([level |-> 0, upstreams |-> <<NewWave([type |-> "triangle"])>>])>>}

InitGain ==
  /\ stage = NoStage
  /\ given = NoArguments
  /\ desc = NoDesc
  /\ from = "none"
  /\ parsed = NoStage
  /\ binding = NoBinding
  /\ bindArg = Null
  /\ voices = 1
  /\ bound = <<>>
  /\ phase = <<>>
  /\ nodes = <<>>
  /\ currentTime = 0
  /\ log = <<>>
  /\ thrown = "none"
  /\ returned = Null
  /\ last = [op |-> "none"]

\* new Gain(level, upstreams)
NewGainStage ==
  /\ stage = NoStage
  /\ \E level \in Levels, upstreams \in GainUpstreams :
       /\ given' = [level |-> level, upstreams |-> upstreams]
       /\ stage' = NewGain([level |-> level, upstreams |-> upstreams])
  /\ UNCHANGED <<stageVars, playVars>>

\* stage.bind(frequency) once the Gain exists
BindGain == stage # NoStage /\ Bind

NextGain ==
  \/ NewGainStage
  \/ BindGain
  \/ \E i \in DOMAIN bound : Play(i)
  \/ \E i \in DOMAIN bound : ReleaseBinding(i)
  \/ Serialize
  \/ Tick

SpecGain == InitGain /\ [][NextGain]_vars

----------------------------------------------------------------------------
(* The silent ping: silentPingToWakeAutoPlayGates, and the same patch      *)
(* bound, played and released by hand.                                     *)

PingPatch == NewGain([level |-> 0, upstreams |-> <<NewWave([type |-> "triangle"])>>])

InitPing ==
  /\ stage = PingPatch
  /\ given = NoArguments
  /\ desc = NoDesc
  /\ from = "none"
  /\ parsed = NoStage
  /\ binding = NoBinding
  /\ bindArg = Null
  /\ voices = 1
  /\ bound = <<>>
  /\ phase = <<>>
  /\ nodes = <<>>
  /\ currentTime = 0
  /\ log = <<>>
  /\ thrown = "none"
  /\ returned = Null
  /\ last = [op |-> "none"]

\* silentPingToWakeAutoPlayGates(audioContext): the binding is built by hand
\* (a Gain without upstreams, bound to null, over a Wave bound to 440),
\* played at the engine's current time and released at once
silentPingToWakeAutoPlayGates ==
  /\ PlaysSoFar < MaxPlays
  /\ \E rejects \in BOOLEAN :
       LET ping == NewBinding(NewGain([level |-> 0]), Null,
                     <<NewBinding(NewWave([type |-> "triangle"]), ConcertPitch, <<>>)>>)
           played == BindingPlay(ping, Destination, currentTime,
                                 [nodes |-> nodes, log |-> <<>>])
           released == BindingRelease(played.binding, played.eng, currentTime, rejects)
       IN /\ nodes' = released.eng.nodes
          /\ log' = released.eng.log
          /\ thrown' = IF IsError(released) THEN released.error ELSE "none"
  /\ last' = [op |-> "silentPing", now |-> currentTime, before |-> Len(nodes)]
  /\ returned' = Null
  /\ UNCHANGED <<stage, given, stageVars, voices, bound, phase, currentTime>>

NextPing ==
  \/ silentPingToWakeAutoPlayGates
  \/ Bind
  \/ \E i \in DOMAIN bound : Play(i)
  \/ \E i \in DOMAIN bound : ReleaseBinding(i)
  \/ Tick

SpecPing == InitPing /\ [][NextPing]_vars

----------------------------------------------------------------------------
(* Properties of the stage model *)

KindOf(d) == IF Has(d, "kind") THEN d.kind ELSE "undefined"

\* the bindings of a binding tree, the root included
RECURSIVE BindingsOf(_)
BindingsOf(b) == {b} \cup UNION {BindingsOf(b.bindings[i]) : i \in DOMAIN b.bindings}

\* b mirrors the stage tree s: one binding per stage, same branching, same order
RECURSIVE Mirrors(_, _)
Mirrors(b, s) ==
  /\ b.stage = s
  /\ Len(b.bindings) = Len(Upstreams(s))
  /\ \A i \in DOMAIN b.bindings : Mirrors(b.bindings[i], s.upstreams[i])

\* a kind the registry lacks, at the root of d or in an upstreams list that
\* the parser of a known kind goes through
RECURSIVE HasUnknownKind(_)
HasUnknownKind(d) ==
  \/ KindOf(d) \notin Registry
  \/ /\ KindOf(d) \in {GainKind, EnvelopeKind, FilterKind}
     /\ \E i \in DOMAIN Upstreams(d) : HasUnknownKind(d.upstreams[i])

\* C1 (as claimed): stageFactory(stage.toJSON()) is value-equal to stage, for
\* every stage tree, a Sample whose beginAt or endAt is 0 included.
C1_RoundTrip ==
  (from = "toJSON" /\ parsed # NoStage) => parsed = stage

\* C2 (as claimed): stage.bind(f) mirrors the stage tree and every binding of
\* it, whatever its stage kind, has frequency f.
C2_EveryBindingHasFrequency ==
  binding # NoBinding =>
    /\ Mirrors(binding, stage)
    /\ \A b \in BindingsOf(binding) : b.frequency = bindArg

\* C2 (amended): stage.bind(f) mirrors the stage tree; the binding of a Wave,
\* Gain, Envelope or Filter has frequency f and the binding of a Noise or a
\* Sample has frequency null.
C2_BindMirrorsStage ==
  binding # NoBinding =>
    /\ Mirrors(binding, stage)
    /\ \A b \in BindingsOf(binding) :
         b.frequency = IF b.stage.class \in {"Noise", "Sample"} THEN Null ELSE bindArg

\* C2 witness: a bound tree of three stages with a Noise or Sample leaf and a
\* Wave leaf side by side.
C2_Witness ==
  /\ binding # NoBinding
  /\ Len(binding.bindings) = 2
  /\ binding.bindings[1].frequency = Null
  /\ binding.bindings[2].frequency = bindArg
  /\ binding.bindings[2].stage.class = "Wave"

\* C6: a description with a kind the registry lacks, at the root or inside an
\* upstreams list, makes stageFactory throw a TypeError; no stage comes back.
C6_UnknownKindThrows ==
  (from \in {"toJSON", "caller"} /\ parsed # NoStage /\ HasUnknownKind(desc)) =>
    parsed = TypeError

\* C6 witness: the unknown kind sits two levels below a known root.
C6_Witness ==
  /\ from = "caller"
  /\ parsed = TypeError
  /\ KindOf(desc) \in Registry
  /\ \E i \in DOMAIN Upstreams(desc) :
       /\ KindOf(desc.upstreams[i]) \in Registry
       /\ HasUnknownKind(desc.upstreams[i])

\* C10 (as claimed): a sample description without beginAt gives beginAt = 0,
\* and one without endAt gives endAt = the length of the longest channel.
C10_SampleDefaults ==
  (from = "caller" /\ KindOf(desc) = SampleKind /\ parsed # NoStage /\ ~IsError(parsed)) =>
    /\ ~Has(desc, "beginAt") => parsed.beginAt = 0
    /\ ~Has(desc, "endAt") => parsed.endAt = dataLengthInFrames(parsed)

\* a declared parameter of the Envelope or Filter that d describes is absent
MissingParameter(d) ==
  CASE KindOf(d) = EnvelopeKind /\ from = "new" ->
         \/ ~Has(d, "options") \/ ~Has(d, "upstreams")
         \/ EnvelopeProperties \ DOMAIN d.options # {}
    [] KindOf(d) = EnvelopeKind /\ from # "new" ->
         (EnvelopeProperties \cup {"upstreams"}) \ DOMAIN d # {}
    [] KindOf(d) = FilterKind ->
         (FilterProperties \cup {"upstreams"}) \ DOMAIN d # {}
    [] OTHER -> FALSE

\* C11 (as claimed): constructing or deserializing an Envelope or a Filter
\* with a declared parameter absent (attack, decay, sustain, release; type,
\* frequency, q, gain; the upstreams list) throws; no stage comes back.
C11_MissingParameterFails ==
  (from \in {"caller", "new"} /\ parsed # NoStage /\ MissingParameter(desc)) =>
    IsError(parsed)

----------------------------------------------------------------------------
(* Properties of playback *)

\* the calls of one kind made during the last play or release, in order
Entries(op) == SelectSeq(log, LAMBDA e : e.op = op)

\* the binding the last call was made on
LastBinding == bound[last.i]

\* the latest of the stop times that stage.release reported during the last
\* release
MaxReportedStopsAt ==
  LET reported == {Entries("release")[k].stopsAt : k \in DOMAIN Entries("release")}
  IN CHOOSE m \in reported : \A x \in reported : m >= x

\* the engine was told to stop node n at time at during the last release
StopIssued(n, at) ==
  \E k \in DOMAIN log : log[k].op = "stop" /\ log[k].node = n /\ log[k].at = at

\* C3 (as claimed): release() on a played tree issues the stop command to
\* every node of the tree, with one time: the maximum of the stop times that
\* stage.release reported for the nodes of the tree.
C3_EveryNodeStoppedAtMax ==
  (last.op = "release" /\ last.before # "unplayed") =>
    \A c \in BindingsOf(LastBinding) : StopIssued(c.node, MaxReportedStopsAt)

\* C3 (amended): release() on a played tree issues stop commands only to
\* nodes of the tree that have a stop operation, all with one time: the
\* maximum of the stop times that stage.release reported for the nodes of the
\* tree.  When the tree is in the playing state, stage.release reports for
\* every node and every node that has a stop operation is sent that command.
C3_StoppableNodesStoppedAtMax ==
  (last.op = "release" /\ last.before # "unplayed") =>
    /\ \A k \in DOMAIN log :
         log[k].op = "stop" =>
           /\ log[k].at = MaxReportedStopsAt
           /\ \E c \in BindingsOf(LastBinding) :
                c.node = log[k].node /\ HasStop(nodes[c.node])
    /\ last.before = "playing" =>
         /\ thrown = "none"
         /\ \A c \in BindingsOf(LastBinding) :
              /\ \E k \in DOMAIN log : log[k].op = "release" /\ log[k].node = c.node
              /\ HasStop(nodes[c.node]) =>
                   /\ StopIssued(c.node, MaxReportedStopsAt)
                   /\ nodes[c.node].stopped = MaxReportedStopsAt

\* C3 witness: a source below an envelope is stopped when the slowest
\* envelope of the tree has decayed, later than its own release asked for.
C3_Witness ==
  /\ last.op = "release" /\ last.before = "playing"
  /\ MaxReportedStopsAt = last.now + Envelope2.release
  /\ \E c \in BindingsOf(LastBinding) :
       /\ c.stage.class = "Wave"
       /\ nodes[c.node].stopped = MaxReportedStopsAt
  /\ \E k \in DOMAIN log : log[k].op = "release" /\ log[k].stopsAt = last.now + Envelope1.release

\* C4 (as claimed): when the engine's stop fails for a node, release() does
\* not raise, and every node of the tree that has a stop operation is still
\* sent its stop command.
C4_StopFailureSwallowed ==
  (last.op = "release" /\ \E k \in DOMAIN log : log[k].op = "stop" /\ log[k].threw) =>
    /\ thrown = "none"
    /\ \A c \in BindingsOf(LastBinding) :
         HasStop(nodes[c.node]) => \E k \in DOMAIN log : log[k].op = "stop" /\ log[k].node = c.node

\* C5 (as claimed): Binding.stop(at) on a binding whose node has no stop
\* operation issues no command to that node, raises no error, and recurses
\* to every child with the same at, so that every descendant with a stop
\* operation is sent stop(at).
C5_UnstoppableNodeSkipped ==
  last.op = "release" =>
    \A k \in DOMAIN log :
      (log[k].op = "Binding.stop" /\ ~HasStop(nodes[log[k].node])) =>
        /\ ~\E j \in DOMAIN log : log[j].op = "stop" /\ log[j].node = log[k].node
        /\ thrown = "none"
        /\ \A c \in BindingsOf(LastBinding) :
             c.node = log[k].node =>
               \A d \in BindingsOf(c) :
                 /\ \E j \in DOMAIN log :
                      log[j] = [op |-> "Binding.stop", node |-> d.node, at |-> log[k].at]
                 /\ HasStop(nodes[d.node]) => StopIssued(d.node, log[k].at)

\* C7: Envelope.release at engine time now reads the gain's value at now,
\* cancels the gain events at or after now, anchors that value at now, ramps
\* to 0 by now + release and reports now + release.
C7_EnvelopeRelease ==
  [][\A i \in DOMAIN bound :
       ReleaseBinding(i) =>
         \A c \in BindingsOf(bound[i]) :
           (Has(c, "node") /\ c.stage.class = "Envelope") =>
             LET before == nodes[c.node].gain
                 stopsAt == currentTime + c.stage.options.release
             IN /\ nodes'[c.node].gain.events =
                     SelectSeq(before.events, LAMBDA e : e.time < currentTime)
                       \o <<[type |-> "set", value |-> ValueAt(before, currentTime),
                             time |-> currentTime],
                            [type |-> "ramp", value |-> 0, time |-> stopsAt]>>
                /\ \E k \in DOMAIN log' :
                     log'[k] = [op |-> "release", node |-> c.node, stopsAt |-> stopsAt]
    ]_vars

\* C7 witness: an envelope released in the middle of its decay; the ramp to 0
\* starts from a value that is neither full gain nor the sustain level.
C7_Witness ==
  /\ last.op = "release" /\ last.before = "playing"
  /\ \E c \in BindingsOf(LastBinding) :
       /\ c.stage.class = "Envelope"
       /\ LET events == nodes[c.node].gain.events
              n == Len(events)
          IN /\ n = 4
             /\ events[1].type = "set"
             /\ last.now > events[1].time + c.stage.options.attack
             /\ last.now < events[1].time + c.stage.options.attack + c.stage.options.decay
             /\ events[2] = [type |-> "ramp", value |-> Unity,
                             time |-> events[1].time + c.stage.options.attack]
             /\ events[3].type = "set" /\ events[3].time = last.now
             /\ events[3].value \notin {0, Unity, c.stage.options.sustain}
             /\ events[4] = [type |-> "ramp", value |-> 0,
                             time |-> last.now + c.stage.options.release]

\* C8 (as claimed): a play call on a binding that has been released leaves
\* it released: it presses no node and keeps the binding's recorded node.
C8_NoReplayAfterRelease ==
  [][\A i \in DOMAIN bound :
       (phase[i] = "released" /\ Play(i)) =>
         /\ phase'[i] = "released"
         /\ Len(nodes') = Len(nodes)
         /\ bound'[i].node = bound[i].node
    ]_vars

\* C9: play on an unplayed tree of n bindings presses n times, once per
\* binding and always with the at given to the root; every binding then
\* holds the node its own press returned, and play returns the root's node.
C9_PlayPressesEveryBinding ==
  (last.op = "play" /\ last.before = "unplayed") =>
    LET presses == Entries("press")
        all == BindingsOf(LastBinding)
    IN /\ Len(presses) = NodeCount(LastBinding.stage)
       /\ \A k \in DOMAIN presses : presses[k].at = last.at
       /\ \A c \in all :
            /\ Has(c, "node")
            /\ \E k \in DOMAIN presses :
                 /\ presses[k].node = c.node
                 /\ presses[k].stage = c.stage
                 /\ presses[k].frequency = c.frequency
       /\ Cardinality({c.node : c \in all}) = Len(presses)
       /\ Cardinality({presses[k].node : k \in DOMAIN presses}) = Len(presses)
       /\ returned = LastBinding.node

\* C9 witness: the patch of five stages has been played.
C9_Witness ==
  /\ last.op = "play" /\ last.before = "unplayed"
  /\ Len(Entries("press")) = 5
  /\ Cardinality(BindingsOf(LastBinding)) = 5

----------------------------------------------------------------------------
(* Properties of two voices *)

\* the nodes a binding tree has recorded, in the order of the tree
RECURSIVE RecordedNodes(_)
RecordedNodes(b) ==
  LET RECURSIVE Below(_)
      Below(i) == IF i > Len(b.bindings) THEN <<>>
                  ELSE RecordedNodes(b.bindings[i]) \o Below(i + 1)
  IN (IF Has(b, "node") THEN <<b.node>> ELSE <<>>) \o Below(1)

\* the nodes recorded by all the bound trees
RECURSIVE AllRecordedNodes(_)
AllRecordedNodes(i) ==
  IF i > Len(bound) THEN <<>> ELSE RecordedNodes(bound[i]) \o AllRecordedNodes(i + 1)

NoDuplicates(seq) == \A j, k \in DOMAIN seq : seq[j] = seq[k] => j = k

\* C12: when one stage tree is bound twice and the two trees are played and
\* released in any interleaving, no node is recorded by two bindings, and a
\* release of one tree leaves every node of the other tree as it was and
\* makes no release or stop call on it.
C12_VoicesIndependent ==
  /\ [](NoDuplicates(AllRecordedNodes(1)))
  /\ [][\A i \in DOMAIN bound :
          ReleaseBinding(i) =>
            \A j \in DOMAIN bound \ {i} :
              \A k \in DOMAIN RecordedNodes(bound[j]) :
                LET n == RecordedNodes(bound[j])[k]
                IN /\ nodes'[n] = nodes[n]
                   /\ \A e \in DOMAIN log' : log'[e].node # n
       ]_vars

\* C12 witness: both trees were played, the first has been released and its
\* sources are stopped, the second is still playing and none of its sources
\* is stopped.
C12_Witness ==
  /\ Len(bound) = 2
  /\ last.op = "release" /\ last.i = 1 /\ thrown = "none"
  /\ phase = <<"released", "playing">>
  /\ Len(RecordedNodes(bound[1])) = NodeCount(stage)
  /\ Len(RecordedNodes(bound[2])) = NodeCount(stage)
  /\ \E k \in DOMAIN RecordedNodes(bound[1]) :
       LET n == RecordedNodes(bound[1])[k]
       IN HasStop(nodes[n]) /\ nodes[n].stopped # Null
  /\ \A k \in DOMAIN RecordedNodes(bound[2]) :
       LET n == RecordedNodes(bound[2])[k]
       IN HasStop(nodes[n]) => nodes[n].stopped = Null

----------------------------------------------------------------------------
(* Properties of a Gain *)

\* C13: a Gain constructed with level L and upstreams U has level = L and
\* upstreams = U, in that order, in every state that bind, play, release and
\* toJSON lead to: in the caller's hands and in the stage of every binding
\* made from it, whose tree mirrors the Gain's tree stage by stage.
C13_GainNeverMutated ==
  given # NoArguments =>
    /\ stage.level = given.level
    /\ stage.upstreams = given.upstreams
    /\ DOMAIN stage = {"class", "level", "upstreams"}
    /\ \A i \in DOMAIN bound : Mirrors(bound[i], stage)

\* C13 witness: a Gain over two upstreams has been serialized, bound, played
\* and released.
C13_Witness ==
  /\ given # NoArguments
  /\ Len(given.upstreams) = 2
  /\ desc = toJSON(stage)
  /\ phase = <<"released">>
  /\ last.op = "release" /\ thrown = "none"
  /\ Len(RecordedNodes(bound[1])) = 3

----------------------------------------------------------------------------
(* Properties of the silent ping *)

\* the gain node and the oscillator of the ping patch's last play: the two
\* nodes that play pressed, or that silentPingToWakeAutoPlayGates created
PingGain == IF last.op = "silentPing" THEN last.before + 1 ELSE LastBinding.node
PingOscillator ==
  IF last.op = "silentPing" THEN last.before + 2 ELSE LastBinding.bindings[1].node

\* play of the ping patch at `at` created exactly two nodes, a gain and an
\* oscillator, the oscillator started at `at` with frequency 440 and type
\* triangle
PingPlayed(before, at) ==
  /\ Len(nodes) = before + 2
  /\ nodes[before + 1].type = "gain"
  /\ nodes[before + 2].type = "oscillator"
  /\ nodes[before + 2].started = at
  /\ nodes[before + 2].frequency.value = ConcertPitch
  /\ nodes[before + 2].oscType = "triangle"

\* C14 (as claimed): the ping patch played at `at` and then released, by
\* hand or by silentPingToWakeAutoPlayGates, creates exactly two nodes, a
\* gain and an oscillator started at `at` with frequency 440 and type
\* triangle, and the stop of both nodes is scheduled at the engine's current
\* time at release.
C14_BothNodesStopScheduled ==
  /\ (last.op = "play" /\ last.before = "unplayed") =>
        PingPlayed(Len(nodes) - Len(Entries("press")), last.at)
  /\ (last.op = "silentPing" => PingPlayed(last.before, last.now))
  /\ (last.op = "silentPing" \/ (last.op = "release" /\ last.before = "playing")) =>
        /\ thrown = "none"
        /\ StopIssued(PingGain, last.now)
        /\ StopIssued(PingOscillator, last.now)

\* C14 (amended): the same, but the stop that is scheduled at the engine's
\* current time at release is the oscillator's alone, that being the time
\* Binding.stop is called with on both bindings; the gain node has no stop
\* operation and no stop command is issued to it.
C14_OscillatorStopScheduled ==
  /\ (last.op = "play" /\ last.before = "unplayed") =>
        PingPlayed(Len(nodes) - Len(Entries("press")), last.at)
  /\ (last.op = "silentPing" => PingPlayed(last.before, last.now))
  /\ (last.op = "silentPing" \/ (last.op = "release" /\ last.before = "playing")) =>
        /\ thrown = "none"
        /\ Entries("Binding.stop") =
             <<[op |-> "Binding.stop", node |-> PingGain, at |-> last.now],
               [op |-> "Binding.stop", node |-> PingOscillator, at |-> last.now]>>
        /\ Entries("stop") =
             <<[op |-> "stop", node |-> PingOscillator, at |-> last.now, threw |-> FALSE]>>
        /\ nodes[PingOscillator].stopped = last.now
        /\ ~HasStop(nodes[PingGain])

\* C14 witness: silentPingToWakeAutoPlayGates has run a second time, after
\* the clock advanced, and its oscillator is started and stopped at that time.
C14_Witness ==
  /\ last.op = "silentPing" /\ last.before = 2 /\ last.now > 0
  /\ nodes[4].started = last.now /\ nodes[4].stopped = last.now
  /\ nodes[2].stopped < last.now

----------------------------------------------------------------------------
(* Properties of the walks of Binding.play and Binding.release *)

\* C15 (as claimed): play issues exactly one connect per binding of the
\* tree: the root's node to the given destination and each child's node to
\* its parent's node; no node is connected twice and nothing else is
\* connected.
C15_OneConnectPerBinding ==
  (last.op = "play" /\ last.before = "unplayed") =>
    LET connects == Entries("connect")
    IN /\ Len(connects) = NodeCount(LastBinding.stage)
       /\ \A j, k \in DOMAIN connects : connects[j].node = connects[k].node => j = k
       /\ \E k \in DOMAIN connects :
            connects[k] = [op |-> "connect", node |-> LastBinding.node, to |-> Destination]
       /\ \A c \in BindingsOf(LastBinding) :
            \A i \in DOMAIN c.bindings :
              \E k \in DOMAIN connects :
                connects[k] = [op |-> "connect", node |-> c.bindings[i].node, to |-> c.node]

\* C16: Binding.release on a played tree calls stage.release exactly once on
\* every node of the tree, and all of these calls are made before the first
\* stop command is issued: the release pass is over when the stop pass begins.
C16_ReleasePassBeforeStopPass ==
  (last.op = "release" /\ last.before # "unplayed") =>
    LET releases == Entries("release")
        recorded == RecordedNodes(LastBinding)
    IN /\ Len(releases) = Len(recorded)
       /\ \A k \in DOMAIN recorded : releases[k].node = recorded[k]
       /\ NoDuplicates(recorded)
       /\ \A j, k \in DOMAIN log :
            (log[j].op = "release" /\ log[k].op \in {"stop", "Binding.stop"}) => j < k

\* C16 witness: a tree of five nodes was released; five stage.release calls
\* are followed by the stop commands to its two sources.
C16_Witness ==
  /\ last.op = "release" /\ last.before = "playing"
  /\ Len(Entries("release")) = 5
  /\ Len(Entries("stop")) = 2
  /\ log[5].op = "release" /\ log[6].op = "Binding.stop"

\* C17: Envelope.press at time `at` creates one gain node and schedules
\* exactly three events on its gain, in this order: value 0 at `at`, a linear
\* ramp to 1.0 ending at at + attack, a linear ramp to the sustain level
\* ending at at + attack + decay; nothing is scheduled after that time.
C17_EnvelopePress ==
  last.op = "play" =>
    \A c \in BindingsOf(LastBinding) :
      c.stage.class = "Envelope" =>
        LET o == c.stage.options
            pressed == SelectSeq(log, LAMBDA e : e.op = "press" /\ e.node = c.node)
        IN /\ Len(pressed) = 1
           /\ pressed[1].stage = c.stage /\ pressed[1].at = last.at
           /\ nodes[c.node].type = "gain"
           /\ nodes[c.node].gain.events =
                <<[type |-> "set", value |-> 0, time |-> last.at],
                  [type |-> "ramp", value |-> Unity, time |-> last.at + o.attack],
                  [type |-> "ramp", value |-> o.sustain,
                   time |-> last.at + o.attack + o.decay]>>

\* C17 witness: two envelopes with different attack, decay and sustain were
\* pressed by one play, after the clock had advanced.
C17_Witness ==
  /\ last.op = "play" /\ last.at > 0
  /\ \E c, d \in BindingsOf(LastBinding) :
       /\ c.stage.class = "Envelope" /\ c.stage.options = Envelope1
       /\ d.stage.class = "Envelope" /\ d.stage.options = Envelope2
       /\ nodes[c.node].gain.events[3] =
            [type |-> "ramp", value |-> Envelope1.sustain,
             time |-> last.at + Envelope1.attack + Envelope1.decay]
       /\ nodes[d.node].gain.events[3] =
            [type |-> "ramp", value |-> Envelope2.sustain,
             time |-> last.at + Envelope2.attack + Envelope2.decay]

\* the stages of a stage tree in pre-order: a stage, then the subtree of each
\* of its upstreams in the order of the upstreams
RECURSIVE PreOrder(_)
PreOrder(s) ==
  LET RECURSIVE Below(_)
      Below(i) == IF i > Len(Upstreams(s)) THEN <<>>
                  ELSE PreOrder(s.upstreams[i]) \o Below(i + 1)
  IN <<s>> \o Below(1)

\* where in the log node n was pressed
PressedAt(n) == CHOOSE k \in DOMAIN log : log[k].op = "press" /\ log[k].node = n

\* C18: play walks the binding tree depth-first in pre-order: the stages are
\* pressed in the pre-order of the stage tree (children in the order of
\* upstreams, a child's whole subtree before its next sibling), each binding
\* recording the node of its own press, and a binding's node is pressed and
\* connected before any of its descendants is pressed.
C18_PlayIsPreOrder ==
  (last.op = "play" /\ last.before = "unplayed") =>
    LET presses == Entries("press")
    IN /\ [k \in DOMAIN presses |-> presses[k].stage] = PreOrder(stage)
       /\ [k \in DOMAIN presses |-> presses[k].node] = RecordedNodes(LastBinding)
       /\ \A c \in BindingsOf(LastBinding) :
            \A d \in BindingsOf(c) \ {c} :
              \E j \in DOMAIN log :
                /\ log[j].op = "connect" /\ log[j].node = c.node
                /\ PressedAt(c.node) < j
                /\ j < PressedAt(d.node)

\* C18 witness: a Gain over two envelopes, each over a source: the first
\* envelope's source is pressed before the second envelope.
C18_Witness ==
  /\ last.op = "play" /\ last.before = "unplayed"
  /\ LET presses == Entries("press")
     IN /\ Len(presses) = 5
        /\ [k \in DOMAIN presses |-> presses[k].stage.class] =
             <<"Gain", "Envelope", "Wave", "Envelope", "Sample">>

\* C19: Binding.release on a binding that was never played throws; it makes
\* no call on the engine (no stage.release, no stop), leaves every node and
\* its gain events as they were, and the binding stays unplayed.
C19_ReleaseUnplayedThrows ==
  [][\A i \in DOMAIN bound :
       (phase[i] = "unplayed" /\ ReleaseBinding(i)) =>
         /\ ~Has(bound[i], "node")
         /\ thrown' = "TypeError"
         /\ log' = <<>>
         /\ nodes' = nodes
         /\ bound' = bound
         /\ phase' = phase
    ]_vars

\* C19 witness: the second voice was released before it was played, while
\* the first voice's envelope was sounding; the release threw.
C19_Witness ==
  /\ Len(bound) = 2
  /\ last.op = "release" /\ last.i = 2 /\ last.before = "unplayed"
  /\ thrown = "TypeError"
  /\ phase = <<"playing", "unplayed">>
  /\ \E k \in DOMAIN nodes :
       nodes[k].type = "gain" /\ Len(nodes[k].gain.events) = 3

====
